---- MODULE Spec2Model ----
(***************************************************************************)
(* NaN-boxing value representation (crate nanval).                         *)
(*                                                                         *)
(* A 64-bit word is modelled as a tuple of four 16-bit limbs               *)
(* <<bits 63..48, bits 47..32, bits 31..16, bits 15..0>>, so that every    *)
(* bit of the u64 arithmetic of the source keeps its position and its      *)
(* width.  Bitwise operators and shifts are computed bit by bit.           *)
(***************************************************************************)
EXTENDS Integers, Sequences, FiniteSets, TLC

VARIABLES
    input,   \* cell/uint scheme: the 64-bit word handed to the functions
    value,   \* cell/uint scheme: the word currently held in the f64-sized slot
    tagArg,  \* cell/uint scheme: the CellTag `value` was built with, or "none"
    op,      \* cell/uint scheme: the function applied last
    out,     \* cell/uint scheme: what that function returned
    self,    \* generic union: the 64-bit word of the RawNaNVal (fields f and u alias)
    call,    \* generic union: the constructor or mutator called last, with its arguments
    ret,     \* generic union: what that call returned
    query,   \* generic union: the &self method called since, with its arguments
    ans,     \* generic union: what that method returned
    build,   \* generic union: what the build makes of NonZeroU16::new_unchecked(0)
    legacy,  \* legacy union (old.rs) given the same calls: its word u, and what
             \* the last call (ret) and the last &self method (ans) returned
    bytes,   \* raw bits: the byte buffer handed to as_raw_bits_64
    endian   \* raw bits: the platform's native byte order

vars == <<input, value, tagArg, op, out, self, call, ret, query, ans, build,
          legacy, bytes, endian>>
cellVars == <<input, value, tagArg, op, out>>
unionVars == <<self, call, ret, query, ans, build, legacy>>
rawVars == <<bytes, endian>>

----------------------------------------------------------------------------
(* Bounds of the model *)

\* the low limbs of the sampled words range over 0..MaxSmall and 65535
MaxSmall == 1

\* the tags of the generic union range over 1..MaxTag and 65535
MaxTag == 2

\* the byte slices have 0..MaxLen bytes
MaxLen == 9

----------------------------------------------------------------------------
(* u64 arithmetic on limbs *)

RECURSIVE Pow2(_)
Pow2(n) == IF n = 0 THEN 1 ELSE 2 * Pow2(n - 1)

\* one limb holds 16 bits
LIMB == Pow2(16)

\* the bitwise operators are computed bit by bit on 4-bit digits, and a limb is
\* combined digit by digit
RECURSIVE AndN(_, _, _)
AndN(a, b, n) ==
    IF n = 0 THEN 0
    ELSE (IF a % 2 = 1 /\ b % 2 = 1 THEN 1 ELSE 0)
         + 2 * AndN(a \div 2, b \div 2, n - 1)

RECURSIVE OrN(_, _, _)
OrN(a, b, n) ==
    IF n = 0 THEN 0
    ELSE (IF a % 2 = 1 \/ b % 2 = 1 THEN 1 ELSE 0)
         + 2 * OrN(a \div 2, b \div 2, n - 1)

RECURSIVE XorN(_, _, _)
XorN(a, b, n) ==
    IF n = 0 THEN 0
    ELSE (IF (a % 2) # (b % 2) THEN 1 ELSE 0)
         + 2 * XorN(a \div 2, b \div 2, n - 1)

AndTable == [a \in 0..15 |-> [b \in 0..15 |-> AndN(a, b, 4)]]
And16(a, b) ==
    AndTable[a % 16][b % 16]
    + 16 * AndTable[(a \div 16) % 16][(b \div 16) % 16]
    + 256 * AndTable[(a \div 256) % 16][(b \div 256) % 16]
    + 4096 * AndTable[a \div 4096][b \div 4096]

OrTable == [a \in 0..15 |-> [b \in 0..15 |-> OrN(a, b, 4)]]
Or16(a, b) ==
    OrTable[a % 16][b % 16]
    + 16 * OrTable[(a \div 16) % 16][(b \div 16) % 16]
    + 256 * OrTable[(a \div 256) % 16][(b \div 256) % 16]
    + 4096 * OrTable[a \div 4096][b \div 4096]

XorTable == [a \in 0..15 |-> [b \in 0..15 |-> XorN(a, b, 4)]]
Xor16(a, b) ==
    XorTable[a % 16][b % 16]
    + 16 * XorTable[(a \div 16) % 16][(b \div 16) % 16]
    + 256 * XorTable[(a \div 256) % 16][(b \div 256) % 16]
    + 4096 * XorTable[a \div 4096][b \div 4096]

\* x & y
BitAnd(x, y) == [i \in 1..4 |-> And16(x[i], y[i])]

\* x | y
BitOr(x, y) == [i \in 1..4 |-> Or16(x[i], y[i])]

\* x ^ y
BitXor(x, y) == [i \in 1..4 |-> Xor16(x[i], y[i])]

\* !x
BitNot(x) == [i \in 1..4 |-> (LIMB - 1) - x[i]]

\* x << n on u64 (bits shifted past bit 63 are lost), 0 <= n < 64
Shl(x, n) ==
    LET q == n \div 16
        r == n % 16
        limb(i) == IF i >= 1 /\ i <= 4 THEN x[i] ELSE 0
    IN  [i \in 1..4 |->
            ((limb(i + q) * Pow2(r)) % LIMB) + (limb(i + q + 1) \div Pow2(16 - r))]

\* x >> n on u64, 0 <= n < 64
Shr(x, n) ==
    LET q == n \div 16
        r == n % 16
        limb(i) == IF i >= 1 /\ i <= 4 THEN x[i] ELSE 0
    IN  [i \in 1..4 |->
            (limb(i - q) \div Pow2(r)) + ((limb(i - q - 1) % Pow2(r)) * Pow2(16 - r))]

ZERO == <<0, 0, 0, 0>>
U64_MAX == <<65535, 65535, 65535, 65535>>

\* Option<T>
None == <<"None">>
Some(x) == <<"Some", x>>
IsSome(o) == o[1] = "Some"
Unwrap(o) == o[2]

----------------------------------------------------------------------------
(* cons.rs *)

SIGN_BIT == <<\h8000, 0, 0, 0>>
NAN_BITS == <<\h7FF8, 0, 0, 0>>
POS_INF_BITS == <<\h7FF0, 0, 0, 0>>
NEG_INF_BITS == <<\hFFF0, 0, 0, 0>>
NEG_ZERO_BITS == <<\h8000, 0, 0, 0>>

----------------------------------------------------------------------------
(* lib root: is_float / is_nanval, used by raw.rs through crate::is_float *)

is_float(v) == BitAnd(v, NAN_BITS) # NAN_BITS \/ v = NAN_BITS

is_nanval(v) == ~is_float(v)

----------------------------------------------------------------------------
(* cell.rs *)

CELL_MARKER_BITS == BitOr(SIGN_BIT, NAN_BITS)
CELL_MARKER_MASK == BitOr(SIGN_BIT, NAN_BITS)
CELL_TAG_BITS == <<\h0007, 0, 0, 0>>

\* enum CellTag, #[repr(u64)]
CellTag == {"Tag1", "Tag2", "Tag3", "Tag4", "Tag5", "Tag6", "Tag7"}

\* `tag as u64`
CellTag_as_u64(tag) ==
    CASE tag = "Tag1" -> <<\h0001, 0, 0, 0>>
      [] tag = "Tag2" -> <<\h0002, 0, 0, 0>>
      [] tag = "Tag3" -> <<\h0003, 0, 0, 0>>
      [] tag = "Tag4" -> <<\h0004, 0, 0, 0>>
      [] tag = "Tag5" -> <<\h0005, 0, 0, 0>>
      [] tag = "Tag6" -> <<\h0006, 0, 0, 0>>
      [] tag = "Tag7" -> <<\h0007, 0, 0, 0>>

\* impl TryFrom<u64> for CellTag, followed by .ok()
CellTag_try_from(v) ==
    CASE v = <<\h0001, 0, 0, 0>> -> Some("Tag1")
      [] v = <<\h0002, 0, 0, 0>> -> Some("Tag2")
      [] v = <<\h0003, 0, 0, 0>> -> Some("Tag3")
      [] v = <<\h0004, 0, 0, 0>> -> Some("Tag4")
      [] v = <<\h0005, 0, 0, 0>> -> Some("Tag5")
      [] v = <<\h0006, 0, 0, 0>> -> Some("Tag6")
      [] v = <<\h0007, 0, 0, 0>> -> Some("Tag7")
      [] OTHER -> None

\* a data mask that forgets to exclude the tag bits
CELL_DATA_BITS_over_tag == BitNot(CELL_MARKER_BITS)

CELL_DATA_BITS == BitNot(BitOr(CELL_MARKER_BITS, CELL_TAG_BITS))

\* #[test] test_cell_bits: its six assertions, in order
test_cell_bits ==
    /\ CELL_MARKER_BITS # CELL_TAG_BITS
    /\ CELL_MARKER_BITS # CELL_DATA_BITS
    /\ CELL_TAG_BITS # CELL_DATA_BITS
    /\ BitAnd(BitAnd(CELL_MARKER_BITS, CELL_TAG_BITS), CELL_DATA_BITS) = ZERO
    /\ BitOr(BitOr(CELL_MARKER_BITS, CELL_TAG_BITS), CELL_DATA_BITS) = U64_MAX
    /\ BitXor(BitXor(CELL_MARKER_BITS, CELL_TAG_BITS), CELL_DATA_BITS) = U64_MAX

\* NonZeroU64::new
NonZeroU64_new(x) == IF x = ZERO THEN None ELSE Some(x)

is_cell(v) == BitAnd(v, CELL_MARKER_BITS) = CELL_MARKER_BITS

is_not_cell(v) == BitAnd(v, CELL_MARKER_BITS) # CELL_MARKER_BITS

unwrap_tag_bits_unchecked(v) == BitAnd(v, CELL_TAG_BITS)

unwrap_tag_bits(v) == IF is_cell(v) THEN Some(BitAnd(v, CELL_TAG_BITS)) ELSE None

unwrap_tag(v) == IF is_cell(v) THEN CellTag_try_from(v) ELSE None

\* mutant: the tag bits are not masked out of the data
unwrap_cell_unchecked_keeps_tag(v) == BitAnd(v, BitNot(CELL_MARKER_BITS))

unwrap_cell_unchecked(v) == BitAnd(v, CELL_DATA_BITS)

unwrap_cell(v) == IF is_cell(v) THEN Some(unwrap_cell_unchecked(v)) ELSE None

unwrap_cell_nonzero(v) ==
    IF is_cell(v) THEN NonZeroU64_new(unwrap_cell_unchecked(v)) ELSE None

\* the cast `as *const ()` keeps all 64 bits of the address
unwrap_cell_rawptr(v) == IF is_cell(v) THEN Some(unwrap_cell_unchecked(v)) ELSE None

\* mutant: an address that does not fit is truncated instead of refused
from_tag_and_pointer_truncating(tag, ptr) ==
    LET vtag == BitAnd(CellTag_as_u64(tag), CELL_TAG_BITS)
        vptr == BitAnd(ptr, CELL_DATA_BITS)
    IN  IF vtag # CellTag_as_u64(tag) THEN None
        ELSE Some(BitOr(BitOr(CELL_MARKER_BITS, vtag), vptr))

from_tag_and_pointer(tag, ptr) ==
    LET vtag == BitAnd(CellTag_as_u64(tag), CELL_TAG_BITS)
        vptr == BitAnd(ptr, CELL_DATA_BITS)
    IN  IF vtag # CellTag_as_u64(tag) THEN None
        ELSE IF vptr # ptr THEN None
        ELSE Some(BitOr(BitOr(CELL_MARKER_BITS, vtag), vptr))

----------------------------------------------------------------------------
(* uint.rs *)

UINT_MARKER_BITS == NAN_BITS
UINT_MARKER_MASK == BitOr(SIGN_BIT, NAN_BITS)
UINT_DATA_BITS == BitNot(UINT_MARKER_MASK)

is_uint(v) == BitAnd(v, UINT_MARKER_MASK) = UINT_MARKER_BITS

is_not_uint(v) == BitAnd(v, UINT_MARKER_MASK) # UINT_MARKER_BITS

unwrap_uint_unchecked(v) == BitAnd(v, UINT_DATA_BITS)

unwrap_uint(v) == IF is_uint(v) THEN Some(unwrap_uint_unchecked(v)) ELSE None

unwrap_uint_nonzero(v) ==
    IF is_uint(v) THEN NonZeroU64_new(unwrap_uint_unchecked(v)) ELSE None

----------------------------------------------------------------------------
(* The sampled 64-bit words *)

\* bits 63..48: the floats +0, -0, 1.5, the infinities, and every pattern of
\* the quiet bit and the three bits below it under either sign; the values
\* 1..7 are the CellTag discriminants and addresses wider than 48 bits
TopLimbs ==
    (0..7) \cup {\h3FF8, \h8000} \cup (\h7FF0..\h7FFF) \cup (\hFFF0..\hFFFF)

LowLimbs == (0..MaxSmall) \cup {LIMB - 1}

Words == {<<a, b, c, d>> : a \in TopLimbs, b \in LowLimbs, c \in LowLimbs, d \in LowLimbs}

----------------------------------------------------------------------------
(* Cell and uint schemes: a word is drawn, then the functions are applied  *)

InitCell ==
    /\ input \in Words
    /\ value = input
    /\ tagArg = "none"
    /\ op = "init"
    /\ out = None
    /\ self = ZERO
    /\ call = <<"none">>
    /\ ret = None
    /\ query = <<"none">>
    /\ ans = None
    /\ build = "none"
    /\ legacy = [u |-> ZERO, ret |-> None, ans |-> None]
    /\ bytes = <<>>
    /\ endian = "none"

\* from_tag_and_pointer(tag, input as *const ()); a returned word is stored
FromTagAndPointer(tag) ==
    LET r == from_tag_and_pointer(tag, input)
    IN  /\ op' = "from_tag_and_pointer"
        /\ out' = r
        /\ tagArg' = IF IsSome(r) THEN tag ELSE tagArg
        /\ value' = IF IsSome(r) THEN Unwrap(r) ELSE value
        /\ UNCHANGED <<input, unionVars, rawVars>>

\* each function below is applied to the stored word and its result kept

IsCell ==
    /\ op' = "is_cell"
    /\ out' = is_cell(value)
    /\ UNCHANGED <<input, value, tagArg, unionVars, rawVars>>

IsNotCell ==
    /\ op' = "is_not_cell"
    /\ out' = is_not_cell(value)
    /\ UNCHANGED <<input, value, tagArg, unionVars, rawVars>>

IsUint ==
    /\ op' = "is_uint"
    /\ out' = is_uint(value)
    /\ UNCHANGED <<input, value, tagArg, unionVars, rawVars>>

IsNotUint ==
    /\ op' = "is_not_uint"
    /\ out' = is_not_uint(value)
    /\ UNCHANGED <<input, value, tagArg, unionVars, rawVars>>

IsFloat ==
    /\ op' = "is_float"
    /\ out' = is_float(value)
    /\ UNCHANGED <<input, value, tagArg, unionVars, rawVars>>

UnwrapTagBits ==
    /\ op' = "unwrap_tag_bits"
    /\ out' = unwrap_tag_bits(value)
    /\ UNCHANGED <<input, value, tagArg, unionVars, rawVars>>

UnwrapTag ==
    /\ op' = "unwrap_tag"
    /\ out' = unwrap_tag(value)
    /\ UNCHANGED <<input, value, tagArg, unionVars, rawVars>>

UnwrapCell ==
    /\ op' = "unwrap_cell"
    /\ out' = unwrap_cell(value)
    /\ UNCHANGED <<input, value, tagArg, unionVars, rawVars>>

UnwrapCellNonzero ==
    /\ op' = "unwrap_cell_nonzero"
    /\ out' = unwrap_cell_nonzero(value)
    /\ UNCHANGED <<input, value, tagArg, unionVars, rawVars>>

UnwrapCellRawptr ==
    /\ op' = "unwrap_cell_rawptr"
    /\ out' = unwrap_cell_rawptr(value)
    /\ UNCHANGED <<input, value, tagArg, unionVars, rawVars>>

UnwrapUint ==
    /\ op' = "unwrap_uint"
    /\ out' = unwrap_uint(value)
    /\ UNCHANGED <<input, value, tagArg, unionVars, rawVars>>

UnwrapUintNonzero ==
    /\ op' = "unwrap_uint_nonzero"
    /\ out' = unwrap_uint_nonzero(value)
    /\ UNCHANGED <<input, value, tagArg, unionVars, rawVars>>

\* the test passes, or one of its assertions panics
TestCellBits ==
    /\ op' = "test_cell_bits"
    /\ out' = IF test_cell_bits THEN <<"passed">> ELSE <<"panicked">>
    /\ UNCHANGED <<input, value, tagArg, unionVars, rawVars>>

NextCell ==
    \/ \E tag \in CellTag : FromTagAndPointer(tag)
    \/ IsCell
    \/ IsNotCell
    \/ IsUint
    \/ IsNotUint
    \/ IsFloat
    \/ UnwrapTagBits
    \/ UnwrapTag
    \/ UnwrapCell
    \/ UnwrapCellNonzero
    \/ UnwrapCellRawptr
    \/ UnwrapUint
    \/ UnwrapUintNonzero
    \/ TestCellBits

SpecCell == InitCell /\ [][NextCell]_vars

----------------------------------------------------------------------------
(* Properties of the cell and uint schemes *)

\* the address fits the 48-bit data field: bits 63..48 are clear
FitsIn48(p) == p[1] = 0

\* v mod 2^52
Low52(v) == <<v[1] % 16, v[2], v[3], v[4]>>

\* C1: for every tag Tag1..Tag7 and every address that fits in 48 bits,
\* from_tag_and_pointer returns Some(w), and unwrap_cell_rawptr(w) returns
\* Some of exactly the original address.
C1_CellRoundTrip ==
    /\ (op = "from_tag_and_pointer" /\ FitsIn48(input)) => IsSome(out)
    /\ (op = "unwrap_cell_rawptr" /\ tagArg # "none") => out = Some(input)

C1_Witness ==
    /\ op = "unwrap_cell_rawptr"
    /\ tagArg = "Tag5"
    /\ input = <<0, 65535, 1, 65535>>
    /\ out = Some(input)

\* C2: unwrap_tag(v) returns the variant Tag k exactly when v is a cell and its
\* three tag bits equal k, and nothing otherwise; every word built by
\* from_tag_and_pointer(tag, p) decodes to Some(tag).
C2_UnwrapTag ==
    op = "unwrap_tag" =>
        /\ \A k \in CellTag :
              (out = Some(k)) <=>
                  (is_cell(value) /\ BitAnd(value, CELL_TAG_BITS) = CellTag_as_u64(k))
        /\ tagArg # "none" => out = Some(tagArg)

\* C3: every 64-bit word is exactly one of cell, uint and float; the
\* canonical NaN word is a float and nothing else.
C3_ExactlyOneKind ==
    LET n(b) == IF b THEN 1 ELSE 0
    IN  n(is_cell(value)) + n(is_uint(value)) + n(is_float(value)) = 1

\* C4: unwrap_uint returns Some of the 52 low-order bits of a uint word
\* (so 2^52 - 1 for the word 0x7FFFFFFFFFFFFFFF) and nothing for any other word.
C4_UnwrapUint52 ==
    op = "unwrap_uint" =>
        out = (IF is_uint(value) THEN Some(Low52(value)) ELSE None)

\* C5: from_tag_and_pointer returns nothing exactly when the address has a bit
\* set outside the 48-bit data field; a returned word is a cell, carries the
\* tag in its tag bits and the address in its data bits, and is neither a
\* uint nor a float nor one of canonical NaN, +infinity, -infinity, +0, -0.
C5_FromTagAndPointer ==
    op = "from_tag_and_pointer" =>
        /\ (out = None) <=> ~FitsIn48(input)
        /\ IsSome(out) =>
              LET w == Unwrap(out)
              IN  /\ is_cell(w)
                  /\ BitAnd(w, CELL_TAG_BITS) = CellTag_as_u64(tagArg)
                  /\ BitAnd(w, CELL_DATA_BITS) = input
                  /\ ~is_uint(w)
                  /\ ~is_float(w)
                  /\ w \notin {NAN_BITS, POS_INF_BITS, NEG_INF_BITS, ZERO, NEG_ZERO_BITS}

C5_Witness ==
    /\ op = "from_tag_and_pointer"
    /\ input = ZERO
    /\ out = Some(<<\hFFF9, 0, 0, 0>>)

\* C13: CELL_MARKER_BITS, CELL_TAG_BITS and CELL_DATA_BITS are pairwise
\* disjoint, their OR and their XOR are all 64 bits, CELL_DATA_BITS is exactly
\* the low 48 bits, every CellTag value lies inside CELL_TAG_BITS, and
\* test_cell_bits passes; so every word splits into its three fields.
C13_CellBitsPartition ==
    /\ BitAnd(CELL_MARKER_BITS, CELL_TAG_BITS) = ZERO
    /\ BitAnd(CELL_MARKER_BITS, CELL_DATA_BITS) = ZERO
    /\ BitAnd(CELL_TAG_BITS, CELL_DATA_BITS) = ZERO
    /\ BitOr(BitOr(CELL_MARKER_BITS, CELL_TAG_BITS), CELL_DATA_BITS) = U64_MAX
    /\ BitXor(BitXor(CELL_MARKER_BITS, CELL_TAG_BITS), CELL_DATA_BITS) = U64_MAX
    /\ CELL_DATA_BITS = <<0, \hFFFF, \hFFFF, \hFFFF>>
    /\ \A tag \in CellTag :
           BitAnd(CellTag_as_u64(tag), CELL_TAG_BITS) = CellTag_as_u64(tag)
    /\ BitXor(BitXor(BitAnd(value, CELL_MARKER_BITS), BitAnd(value, CELL_TAG_BITS)),
              BitAnd(value, CELL_DATA_BITS)) = value
    /\ op = "test_cell_bits" => out = <<"passed">>

C13_Witness ==
    /\ op = "test_cell_bits"
    /\ out = <<"passed">>
    /\ value = <<\hFFFD, \hFFFF, 1, \hFFFF>>

----------------------------------------------------------------------------
(* lib.rs: the generic tagged union RawNaNVal<TAG, DAT>                     *)
(* TAG is NonZeroU16 (an integer 1..65535), DAT is u32 (two limbs).         *)

NAN_SIGNAL == <<\hFFF0, 0, 0, 0>>
NAN_MASK == <<\hFFFF, 0, 0, 0>>
NAN_UNMASK == <<0, \hFFFF, \hFFFF, \hFFFF>>

TAG_SHIFT == 48
TAG_MASK == <<0, \hFFFF, 0, 0>>

DAT_MASK == <<0, 0, \hFFFF, \hFFFF>>
DAT_UNMASK == <<\hFFFF, \hFFFF, 0, 0>>

\* the casts `as u64` of a u16 and of a u32, `as u16` and `as u32` of a u64
u16_as_u64(t) == <<0, 0, 0, t>>
u32_as_u64(d) == <<0, 0, d[1], d[2]>>
u64_as_u16(w) == w[4]
u64_as_u32(w) == <<w[3], w[4]>>

\* Outcomes of the undefined behaviour of NonZeroU16::new_unchecked(0):
\*   "niche": no check is compiled in; the zero is stored, and an Option
\*            around it reads as None (zero is the niche of NonZeroU16)
\*   "trap":  the precondition check of a debug build aborts the program
Builds == {"niche", "trap"}
Abort == <<"Abort">>

\* Some(x) where x holds the NonZeroU16 raw value n
SomeNonZero(n, x, b) ==
    IF n # 0 THEN Some(x)
    ELSE IF b = "niche" THEN None
    ELSE Abort

\* (tag as u64) << TAG_SHIFT, & TAG_MASK
tag_bits(tag) == BitAnd(Shl(u16_as_u64(tag), TAG_SHIFT), TAG_MASK)

\* dat as u64, & DAT_MASK
dat_bits(dat) == BitAnd(u32_as_u64(dat), DAT_MASK)

has_tag(u) == BitAnd(u, NAN_MASK) = NAN_SIGNAL

has_f64(u) == BitAnd(u, NAN_MASK) # NAN_SIGNAL

from_float(f) == IF has_tag(f) THEN None ELSE Some(f)

from_tag(tag) == BitOr(NAN_SIGNAL, tag_bits(tag))

from_tag_and_data(tag, dat) == BitOr(BitOr(NAN_SIGNAL, tag_bits(tag)), dat_bits(dat))

\* the raw u16 handed to NonZeroU16::new_unchecked
get_tag_unchecked(u) == u64_as_u16(Shr(BitAnd(u, TAG_MASK), TAG_SHIFT))

get_dat_raw_unchecked(u) == u64_as_u32(BitAnd(u, DAT_MASK))

set_tag_unchecked(u, tag) ==
    BitOr(BitAnd(u, NAN_UNMASK), BitOr(NAN_SIGNAL, tag_bits(tag)))

set_dat_unchecked(u, dat) == BitOr(BitAnd(u, DAT_UNMASK), dat_bits(dat))

set_tag_and_dat(u, tag, dat) == BitOr(BitOr(NAN_SIGNAL, tag_bits(tag)), dat_bits(dat))

\* impl Clone: a bit copy
clone(u) == u

\* mutant: the has_tag check is missing
with_dat_unguarded(u, dat) == Some(set_dat_unchecked(clone(u), dat))

with_dat(u, dat) ==
    IF has_tag(u) THEN Some(set_dat_unchecked(clone(u), dat)) ELSE None

set_f64(u, f) == f

get_f64(u) == IF has_tag(u) THEN None ELSE Some(u)

get_tag(u, b) ==
    IF has_tag(u)
    THEN LET tag == get_tag_unchecked(u) IN SomeNonZero(tag, tag, b)
    ELSE None

get_dat(u) == IF has_tag(u) THEN Some(get_dat_raw_unchecked(u)) ELSE None

get_tag_and_dat(u, b) ==
    IF has_tag(u)
    THEN LET tag == get_tag_unchecked(u)
         IN  SomeNonZero(tag, <<tag, get_dat_raw_unchecked(u)>>, b)
    ELSE None

\* Result<T, ()>
Ok(x) == <<"Ok", x>>
Err == <<"Err">>
IsOk(r) == r[1] = "Ok"

\* Option::ok_or(())
ok_or(o) == IF IsSome(o) THEN Ok(Unwrap(o)) ELSE Err

\* bool::then
bool_then(b, x) == IF b THEN Some(x) ELSE None

\* impl TryFrom<RawNaNVal<TAG, DAT>> for f64
f64_try_from(u) == ok_or(get_f64(u))

\* impl TryFrom<f64> for RawNaNVal<TAG, DAT>
try_from_f64(f) == ok_or(bool_then(has_tag(f), f))

----------------------------------------------------------------------------
(* old.rs: the legacy RawNaNVal<TAG, DAT>; NAN_SIGNAL, NAN_MASK and         *)
(* NAN_UNMASK are those of the crate root.  The debug assertions of the     *)
(* unchecked methods state has_tag(), which their callers below have        *)
(* established.                                                             *)

old_TAG_SHIFT == 48
old_TAG_MASK == <<0, \hFFFF, 0, 0>>

old_DAT_MASK == <<0, 0, \hFFFF, \hFFFF>>
old_DAT_UNMASK == <<\hFFFF, \hFFFF, 0, 0>>

old_tag_bits(tag) == BitAnd(Shl(u16_as_u64(tag), old_TAG_SHIFT), old_TAG_MASK)

old_dat_bits(dat) == BitAnd(u32_as_u64(dat), old_DAT_MASK)

old_has_tag(u) == BitAnd(u, NAN_MASK) = NAN_SIGNAL

old_has_f64(u) == BitAnd(u, NAN_MASK) # NAN_SIGNAL

old_from_float(f) == IF old_has_tag(f) THEN None ELSE Some(f)

old_from_tag(tag) == BitOr(NAN_SIGNAL, old_tag_bits(tag))

old_from_tag_and_data(tag, dat) ==
    BitOr(BitOr(NAN_SIGNAL, old_tag_bits(tag)), old_dat_bits(dat))

old_get_tag_unchecked(u) == u64_as_u16(Shr(BitAnd(u, old_TAG_MASK), old_TAG_SHIFT))

old_get_dat_raw_unchecked(u) == u64_as_u32(BitAnd(u, old_DAT_MASK))

old_set_tag_unchecked(u, tag) ==
    BitOr(BitAnd(u, NAN_UNMASK), BitOr(NAN_SIGNAL, old_tag_bits(tag)))

\* mutant: the old data is not removed before the new data is inserted
old_set_dat_unchecked_merging(u, dat) == BitOr(u, old_dat_bits(dat))

old_set_dat_unchecked(u, dat) == BitOr(BitAnd(u, old_DAT_UNMASK), old_dat_bits(dat))

old_set_tag_and_dat(u, tag, dat) ==
    BitOr(BitOr(NAN_SIGNAL, old_tag_bits(tag)), old_dat_bits(dat))

\* #[derive(Clone, Copy)]
old_clone(u) == u

old_with_dat(u, dat) ==
    IF old_has_tag(u) THEN Some(old_set_dat_unchecked(old_clone(u), dat)) ELSE None

old_set_f64(u, f) == f

old_get_f64(u) == IF old_has_tag(u) THEN None ELSE Some(u)

old_get_tag(u, b) ==
    IF old_has_tag(u)
    THEN LET tag == old_get_tag_unchecked(u) IN SomeNonZero(tag, tag, b)
    ELSE None

old_get_dat(u) == IF old_has_tag(u) THEN Some(old_get_dat_raw_unchecked(u)) ELSE None

old_get_tag_and_dat(u, b) ==
    IF old_has_tag(u)
    THEN LET tag == old_get_tag_unchecked(u)
         IN  SomeNonZero(tag, <<tag, old_get_dat_raw_unchecked(u)>>, b)
    ELSE None

\* impl TryFrom<RawNaNVal<TAG, DAT>> for f64 (legacy)
old_f64_try_from(u) == ok_or(old_get_f64(u))

\* impl TryFrom<f64> for RawNaNVal<TAG, DAT> (legacy)
old_try_from_f64(f) == ok_or(bool_then(old_has_tag(f), f))

----------------------------------------------------------------------------
(* The sampled arguments of the generic union *)

\* NonZeroU16 tags
Tags == (1..MaxTag) \cup {\hFFFF}

\* u32 data
Dats == {<<0, 0>>, <<0, 1>>, <<1, 0>>, <<\hFFFF, \hFFFF>>}

\* f64 bit patterns: +0, 1.5, +infinity, quiet NaNs, -0, -infinity, and NaNs
\* whose upper 16 bits are those of -infinity or above
FloatTops == {0, \h3FF8, \h7FF0, \h7FF8, \h7FFF, \h8000, \hFFF0, \hFFF1, \hFFF8, \hFFFF}

\* the lower 48 bits of the sampled f64 bit patterns
FloatLows == {<<0, 0, 0>>, <<0, 0, 1>>, <<1, 0, 1>>, <<1, \hFFFF, \hFFFF>>}

Floats == {<<a, l[1], l[2], l[3]>> : a \in FloatTops, l \in FloatLows}

\* the f64 arguments of TryFrom<f64>: those with an all-zero lower 48 bits
\* (+0, 1.5, +infinity, canonical NaN, -0, -infinity among them)
TryFloats == {f \in Floats : f[2] = 0 /\ f[3] = 0 /\ f[4] = 0}

----------------------------------------------------------------------------
(* Generic union: one value slot, constructed and then used *)

Unit == <<"unit">>
NoQuery == <<"none">>

\* the slot holds RawNaNVal::from_float(0.0).unwrap()
Init ==
    /\ build \in Builds
    /\ self = Unwrap(from_float(ZERO))
    /\ call = <<"from_float", ZERO>>
    /\ ret = from_float(ZERO)
    /\ query = NoQuery
    /\ ans = None
    /\ legacy = [u |-> Unwrap(old_from_float(ZERO)), ret |-> old_from_float(ZERO),
                 ans |-> None]
    /\ bytes = <<>>
    /\ endian = "none"
    /\ input = ZERO
    /\ value = ZERO
    /\ tagArg = "none"
    /\ op = "init"
    /\ out = None

\* A constructor or a &mut self method leaves its result in the slot; a &self
\* method leaves the slot alone and its answer in `ans`.  Every call is made
\* on the current and on the legacy implementation alike.

\* a None leaves the slot as it was
FromFloat(f) ==
    /\ call' = <<"from_float", f>>
    /\ self' = IF IsSome(from_float(f)) THEN Unwrap(from_float(f)) ELSE self
    /\ ret' = from_float(f)
    /\ query' = NoQuery
    /\ ans' = None
    /\ legacy' = [u |-> IF IsSome(old_from_float(f)) THEN Unwrap(old_from_float(f))
                        ELSE legacy.u,
                  ret |-> old_from_float(f), ans |-> None]
    /\ UNCHANGED <<build, cellVars, rawVars>>

FromTag(tag) ==
    /\ call' = <<"from_tag", tag>>
    /\ self' = from_tag(tag)
    /\ ret' = Unit
    /\ query' = NoQuery
    /\ ans' = None
    /\ legacy' = [u |-> old_from_tag(tag),
                  ret |-> Unit, ans |-> None]
    /\ UNCHANGED <<build, cellVars, rawVars>>

FromTagAndData(tag, dat) ==
    /\ call' = <<"from_tag_and_data", tag, dat>>
    /\ self' = from_tag_and_data(tag, dat)
    /\ ret' = Unit
    /\ query' = NoQuery
    /\ ans' = None
    /\ legacy' = [u |-> old_from_tag_and_data(tag, dat),
                  ret |-> Unit, ans |-> None]
    /\ UNCHANGED <<build, cellVars, rawVars>>

\* unsafe: the caller has checked has_tag()
SetTagUnchecked(tag) ==
    /\ has_tag(self)
    /\ call' = <<"set_tag_unchecked", tag>>
    /\ self' = set_tag_unchecked(self, tag)
    /\ ret' = Unit
    /\ query' = NoQuery
    /\ ans' = None
    /\ legacy' = [u |-> old_set_tag_unchecked(legacy.u, tag),
                  ret |-> Unit, ans |-> None]
    /\ UNCHANGED <<build, cellVars, rawVars>>

\* unsafe: the caller has checked has_tag()
SetDatUnchecked(dat) ==
    /\ has_tag(self)
    /\ call' = <<"set_dat_unchecked", dat>>
    /\ self' = set_dat_unchecked(self, dat)
    /\ ret' = Unit
    /\ query' = NoQuery
    /\ ans' = None
    /\ legacy' = [u |-> old_set_dat_unchecked(legacy.u, dat),
                  ret |-> Unit, ans |-> None]
    /\ UNCHANGED <<build, cellVars, rawVars>>

SetTagAndDat(tag, dat) ==
    /\ call' = <<"set_tag_and_dat", tag, dat>>
    /\ self' = set_tag_and_dat(self, tag, dat)
    /\ ret' = Unit
    /\ query' = NoQuery
    /\ ans' = None
    /\ legacy' = [u |-> old_set_tag_and_dat(legacy.u, tag, dat),
                  ret |-> Unit, ans |-> None]
    /\ UNCHANGED <<build, cellVars, rawVars>>

SetF64(f) ==
    /\ call' = <<"set_f64", f>>
    /\ self' = set_f64(self, f)
    /\ ret' = Unit
    /\ query' = NoQuery
    /\ ans' = None
    /\ legacy' = [u |-> old_set_f64(legacy.u, f),
                  ret |-> Unit, ans |-> None]
    /\ UNCHANGED <<build, cellVars, rawVars>>

WithDat(dat) ==
    /\ query' = <<"with_dat", dat>>
    /\ ans' = with_dat(self, dat)
    /\ legacy' = [legacy EXCEPT !.ans = old_with_dat(legacy.u, dat)]
    /\ UNCHANGED <<self, call, ret, build, cellVars, rawVars>>

Clone ==
    /\ query' = <<"clone">>
    /\ ans' = Some(clone(self))
    /\ legacy' = [legacy EXCEPT !.ans = Some(old_clone(legacy.u))]
    /\ UNCHANGED <<self, call, ret, build, cellVars, rawVars>>

HasTag ==
    /\ query' = <<"has_tag">>
    /\ ans' = has_tag(self)
    /\ legacy' = [legacy EXCEPT !.ans = old_has_tag(legacy.u)]
    /\ UNCHANGED <<self, call, ret, build, cellVars, rawVars>>

HasF64 ==
    /\ query' = <<"has_f64">>
    /\ ans' = has_f64(self)
    /\ legacy' = [legacy EXCEPT !.ans = old_has_f64(legacy.u)]
    /\ UNCHANGED <<self, call, ret, build, cellVars, rawVars>>

GetF64 ==
    /\ query' = <<"get_f64">>
    /\ ans' = get_f64(self)
    /\ legacy' = [legacy EXCEPT !.ans = old_get_f64(legacy.u)]
    /\ UNCHANGED <<self, call, ret, build, cellVars, rawVars>>

GetTag ==
    /\ query' = <<"get_tag">>
    /\ ans' = get_tag(self, build)
    /\ legacy' = [legacy EXCEPT !.ans = old_get_tag(legacy.u, build)]
    /\ UNCHANGED <<self, call, ret, build, cellVars, rawVars>>

GetDat ==
    /\ query' = <<"get_dat">>
    /\ ans' = get_dat(self)
    /\ legacy' = [legacy EXCEPT !.ans = old_get_dat(legacy.u)]
    /\ UNCHANGED <<self, call, ret, build, cellVars, rawVars>>

GetTagAndDat ==
    /\ query' = <<"get_tag_and_dat">>
    /\ ans' = get_tag_and_dat(self, build)
    /\ legacy' = [legacy EXCEPT !.ans = old_get_tag_and_dat(legacy.u, build)]
    /\ UNCHANGED <<self, call, ret, build, cellVars, rawVars>>

\* an Err leaves the slot as it was
TryFromF64(f) ==
    /\ call' = <<"try_from_f64", f>>
    /\ self' = IF IsOk(try_from_f64(f)) THEN Unwrap(try_from_f64(f)) ELSE self
    /\ ret' = try_from_f64(f)
    /\ query' = NoQuery
    /\ ans' = None
    /\ legacy' = [u |-> IF IsOk(old_try_from_f64(f)) THEN Unwrap(old_try_from_f64(f))
                        ELSE legacy.u,
                  ret |-> old_try_from_f64(f), ans |-> None]
    /\ UNCHANGED <<build, cellVars, rawVars>>

F64TryFrom ==
    /\ query' = <<"f64_try_from">>
    /\ ans' = f64_try_from(self)
    /\ legacy' = [legacy EXCEPT !.ans = old_f64_try_from(legacy.u)]
    /\ UNCHANGED <<self, call, ret, build, cellVars, rawVars>>

Next ==
    \/ \E f \in Floats : FromFloat(f)
    \/ \E tag \in Tags : FromTag(tag)
    \/ \E tag \in Tags, dat \in Dats : FromTagAndData(tag, dat)
    \/ \E tag \in Tags : SetTagUnchecked(tag)
    \/ \E dat \in Dats : SetDatUnchecked(dat)
    \/ \E tag \in Tags, dat \in Dats : SetTagAndDat(tag, dat)
    \/ \E f \in Floats : SetF64(f)
    \/ \E dat \in Dats : WithDat(dat)
    \/ Clone
    \/ HasTag
    \/ HasF64
    \/ GetF64
    \/ GetTag
    \/ GetDat
    \/ GetTagAndDat
    \/ \E f \in TryFloats : TryFromF64(f)
    \/ F64TryFrom

Spec == Init /\ [][Next]_vars

----------------------------------------------------------------------------
(* Properties of the generic union *)

\* f is a NaN: exponent bits 62..52 all set and a non-zero mantissa
IsNaN(f) ==
    /\ (f[1] % 32768) \div 16 = 2047
    /\ <<f[1] % 16, f[2], f[3], f[4]>> # ZERO

\* C6: in every state reached by the safe operations, a union that has a tag
\* has a non-zero 16-bit tag field, so get_tag and get_tag_and_dat never hand
\* zero to NonZeroU16::new_unchecked.  (The unchecked setters reach no word
\* that set_f64 does not reach as well.)
C6_TagFieldNonZero == has_tag(self) => get_tag_unchecked(self) # 0

\* C7: from_tag_and_data(t, d).get_tag_and_dat() == Some((t, d)),
\* from_tag(t).get_tag() == Some(t), after set_tag_and_dat(t, d) get_tag() ==
\* Some(t) and get_dat() == Some(d), and two different tags never produce the
\* same word.
C7_TagDataRoundTrip ==
    /\ (call[1] = "from_tag_and_data" /\ query = <<"get_tag_and_dat">>)
           => ans = Some(<<call[2], call[3]>>)
    /\ (call[1] = "from_tag" /\ query = <<"get_tag">>) => ans = Some(call[2])
    /\ (call[1] = "set_tag_and_dat" /\ query = <<"get_tag">>) => ans = Some(call[2])
    /\ (call[1] = "set_tag_and_dat" /\ query = <<"get_dat">>) => ans = Some(call[3])
    /\ call[1] = "from_tag" => \A t \in Tags \ {call[2]} : from_tag(t) # self

\* C8: from_float(f) returns nothing only for a NaN whose upper 16 bits are the
\* NaN signal; for every non-NaN f (the infinities and zeros included) it
\* returns a union that has a float and no tag and gives back f bit for bit;
\* no word built by from_tag or from_tag_and_data is a non-NaN float.
C8_FromFloat ==
    /\ call[1] = "from_float" =>
          LET f == call[2]
          IN  /\ ret = None => (IsNaN(f) /\ f[1] = NAN_SIGNAL[1])
              /\ ~IsNaN(f) =>
                    /\ IsSome(ret)
                    /\ has_f64(self)
                    /\ ~has_tag(self)
                    /\ query = <<"get_f64">> => ans = Some(f)
    /\ call[1] \in {"from_tag", "from_tag_and_data"} => IsNaN(self)

\* C9: exactly one of has_tag() and has_f64() holds; has_tag() holds iff the
\* upper 16 bits are the NaN signal; get_f64() is nothing iff get_tag() and
\* get_dat() are something; the results of from_tag, from_tag_and_data and
\* set_tag_and_dat have no float, a Some result of from_float has no tag.
C9_StateExclusive ==
    /\ has_tag(self) # has_f64(self)
    /\ has_tag(self) <=> (self[1] = NAN_SIGNAL[1])
    /\ (get_f64(self) = None) <=> IsSome(get_tag(self, build))
    /\ (get_f64(self) = None) <=> IsSome(get_dat(self))
    /\ call[1] \in {"from_tag", "from_tag_and_data", "set_tag_and_dat"} => ~has_f64(self)
    /\ (call[1] = "from_float" /\ IsSome(ret)) => ~has_tag(self)

\* C10: with_dat(d) returns nothing on a union that has a float; on a union
\* that has a tag it returns a union whose data is d and whose upper 32 bits
\* are the receiver's, so that get_tag() is the receiver's and get_dat() is
\* Some(d); the receiver keeps its word in both cases.
C10_WithDat ==
    [][query'[1] = "with_dat" =>
          LET d == query'[2]
          IN  /\ self' = self
              /\ has_f64(self) => ans' = None
              /\ has_tag(self) =>
                    /\ IsSome(ans')
                    /\ BitAnd(Unwrap(ans'), DAT_MASK) = u32_as_u64(d)
                    /\ BitAnd(Unwrap(ans'), DAT_UNMASK) = BitAnd(self, DAT_UNMASK)
                    /\ get_tag(Unwrap(ans'), build) = get_tag(self, build)
                    /\ get_dat(Unwrap(ans')) = Some(d)]_vars

C10_Witness ==
    /\ query = <<"with_dat", <<\hFFFF, \hFFFF>>>>
    /\ self = <<\hFFF0, 1, 0, 1>>
    /\ ans = Some(<<\hFFF0, 1, \hFFFF, \hFFFF>>)

\* C11: given the same calls, the current and the legacy implementation hold
\* the same 64-bit word after every step, and every call and every query
\* returns nothing in one exactly when it does in the other, and equal values
\* otherwise.
C11_LegacyEquivalent ==
    /\ legacy.u = self
    /\ legacy.ret = ret
    /\ legacy.ans = ans

C11_Witness ==
    /\ call = <<"set_dat_unchecked", <<\hFFFF, \hFFFF>>>>
    /\ query = <<"get_dat">>
    /\ self = <<\hFFF0, 1, \hFFFF, \hFFFF>>
    /\ legacy.u = self
    /\ legacy.ans = Some(<<\hFFFF, \hFFFF>>)

\* C14: on a union that has a tag, set_tag_unchecked(t) leaves has_tag() true,
\* makes get_tag() == Some(t) whatever the tag was, and keeps the 32 data
\* bits; set_dat_unchecked(d) keeps the upper 32 bits and makes get_dat() ==
\* Some(d).  The same holds of the legacy implementation.
C14_SetUnchecked ==
    [][/\ (query' = NoQuery /\ call'[1] = "set_tag_unchecked") =>
              /\ has_tag(self')
              /\ get_tag(self', build) = Some(call'[2])
              /\ BitAnd(self', DAT_MASK) = BitAnd(self, DAT_MASK)
              /\ old_has_tag(legacy'.u)
              /\ old_get_tag(legacy'.u, build) = Some(call'[2])
              /\ BitAnd(legacy'.u, old_DAT_MASK) = BitAnd(legacy.u, old_DAT_MASK)
       /\ (query' = NoQuery /\ call'[1] = "set_dat_unchecked") =>
              /\ BitAnd(self', DAT_UNMASK) = BitAnd(self, DAT_UNMASK)
              /\ get_dat(self') = Some(call'[2])
              /\ BitAnd(legacy'.u, old_DAT_UNMASK) = BitAnd(legacy.u, old_DAT_UNMASK)
              /\ old_get_dat(legacy'.u) = Some(call'[2])]_vars

\* C15: TryFrom<f64> for RawNaNVal returns Ok exactly when from_float returns
\* Some; the union it returns has a float, and TryFrom<RawNaNVal> for f64
\* gives back Ok(f).  The same holds of the legacy implementation.
C15_TryFromF64 ==
    call[1] = "try_from_f64" =>
        LET f == call[2]
        IN  /\ IsOk(ret) <=> IsSome(from_float(f))
            /\ IsOk(ret) =>
                  /\ has_f64(Unwrap(ret))
                  /\ query = <<"f64_try_from">> => ans = Ok(f)
            /\ IsOk(legacy.ret) <=> IsSome(old_from_float(f))
            /\ IsOk(legacy.ret) =>
                  /\ old_has_f64(Unwrap(legacy.ret))
                  /\ query = <<"f64_try_from">> => legacy.ans = Ok(f)

-----------------------------------------------------------------------------
(* raw.rs: IntoRawBits64 for byte arrays and byte slices                    *)

\* a panic of the program
Panic == <<"panic">>

\* the byte order of the target
Endians == {"little", "big"}

\* the sampled byte values
Bytes == {1, \hF8}

\* the sampled byte slices
ByteSeqs == UNION {[1..n -> Bytes] : n \in 0..MaxLen}

\* u64::from_ne_bytes on an array of 8 bytes
from_ne_bytes(a, e) ==
    IF e = "little"
    THEN <<a[8] * 256 + a[7], a[6] * 256 + a[5], a[4] * 256 + a[3], a[2] * 256 + a[1]>>
    ELSE <<a[1] * 256 + a[2], a[3] * 256 + a[4], a[5] * 256 + a[6], a[7] * 256 + a[8]>>

\* <[u8; 8]>::try_from(&[u8]): an array only when the slice has 8 bytes
slice_try_into_array8(s) == IF Len(s) = 8 THEN Ok(s) ELSE Err

\* impl IntoRawBits64 for [u8; 8]
array_as_raw_bits_64(a, e) == from_ne_bytes(a, e)

\* impl IntoRawBits64 for &[u8]: self[0..=3].try_into().unwrap() on 8 bytes
\* or more, a panic on fewer
slice_as_raw_bits_64(s, e) ==
    IF Len(s) >= 8
    THEN LET r == slice_try_into_array8(SubSeq(s, 1, 4))
         IN  IF IsOk(r) THEN Some(from_ne_bytes(r[2], e)) ELSE Panic
    ELSE Panic

InitRaw ==
    /\ bytes \in ByteSeqs
    /\ endian \in Endians
    /\ input = ZERO
    /\ value = ZERO
    /\ tagArg = "none"
    /\ op = "init"
    /\ out = None
    /\ self = ZERO
    /\ call = <<"none">>
    /\ ret = None
    /\ query = <<"none">>
    /\ ans = None
    /\ build = "none"
    /\ legacy = [u |-> ZERO, ret |-> None, ans |-> None]

\* the bytes are passed as a [u8; 8]
ArrayAsRawBits64 ==
    /\ Len(bytes) = 8
    /\ op' = "array_as_raw_bits_64"
    /\ out' = Some(array_as_raw_bits_64(bytes, endian))
    /\ UNCHANGED <<input, value, tagArg, unionVars, rawVars>>

\* the bytes are passed as a &[u8]
SliceAsRawBits64 ==
    /\ op' = "slice_as_raw_bits_64"
    /\ out' = slice_as_raw_bits_64(bytes, endian)
    /\ UNCHANGED <<input, value, tagArg, unionVars, rawVars>>

NextRaw ==
    \/ ArrayAsRawBits64
    \/ SliceAsRawBits64

SpecRaw == InitRaw /\ [][NextRaw]_vars

\* C12: as_raw_bits_64 on a byte slice of 8 bytes or more returns the word of
\* its first 8 bytes in the byte order of the target, the word the [u8; 8]
\* implementation returns for them; on a shorter slice it panics.
C12_SliceAsRawBits ==
    op = "slice_as_raw_bits_64" =>
        /\ Len(bytes) >= 8 =>
              out = Some(array_as_raw_bits_64(SubSeq(bytes, 1, 8), endian))
        /\ Len(bytes) < 8 => out = Panic

====
